---- MODULE Spec2Model ----
(***************************************************************************)
(* A model of the cyoa story engine: the validator (Engine::from_program   *)
(* and Engine::errors), the evaluator (evaluate_string,                    *)
(* evaluate_expression, is_truthy) and the session state machine           *)
(* (new_session, get_current_node_view, choose_option).                    *)
(*                                                                         *)
(* Rust values are modelled as records:                                    *)
(*   Option<T>   a sequence of length 0 (None) or 1 (Some)                 *)
(*   HashMap     a function whose DOMAIN is the set of keys                *)
(*   String      a TLA+ string, concatenated with \o                       *)
(*   a panic     a result record whose st field names the panic            *)
(* Session.created_at (a clock reading) is not modelled.                   *)
(***************************************************************************)
EXTENDS Integers, Sequences, FiniteSets, TLC

VARIABLES source, built, sessions, last

vars == <<source, built, sessions, last>>

(***************************************************************************)
(* Bounds of the model.                                                    *)
(***************************************************************************)
\* the integer literals of the scripts are 0, MaxInt and -MaxInt
MaxInt == 1
\* number of sessions spawned from one engine
MaxSessions == 2

(***************************************************************************)
(* parser.rs: the data types.                                              *)
(***************************************************************************)
None == <<>>
Some(v) == <<v>>

Literal(s) == [kind |-> "Literal", text |-> s]
Name(n) == [kind |-> "Name", text |-> n]

ValueBool(b) == [tag |-> "Bool", b |-> b]
ValueInt(i) == [tag |-> "Int", i |-> i]
ValueString(fs) == [tag |-> "String", s |-> fs]

ExprValue(v) == [op |-> "Value", v |-> v]
ExprName(n) == [op |-> "Name", name |-> n]
ExprBinary(o, l, r) == [op |-> o, left |-> l, right |-> r]

CommandSet(n, v) == [cmd |-> "Set", name |-> n, value |-> v]

Choice(req, text, target, command) ==
    [requirement |-> req, text |-> text, next_node_id |-> target, command |-> command]

Node(text, choices) == [display_text |-> text, choices |-> choices]

NodeDefinition(id, node) == [part |-> "NodeDefinition", id |-> id, node |-> node]
VariableDefinition(n, v) == [part |-> "VariableDefinition", name |-> n, value |-> v]
\* a declaration the grammar of parse_program_part rejects
Malformed == [part |-> "Malformed"]

\* is_truthy as it would be if an Int counted as true only when positive
is_truthy_positive(v) ==
    CASE v.tag = "Bool" -> v.b
      [] v.tag = "Int" -> v.i > 0
      [] v.tag = "String" -> v.s # <<>>

\* Value::is_truthy
is_truthy(v) ==
    CASE v.tag = "Bool" -> v.b
      [] v.tag = "Int" -> v.i # 0
      [] v.tag = "String" -> v.s # <<>>

(***************************************************************************)
(* parser.rs: parse_program is many0 over the declarations: it collects    *)
(* declarations until the first one that does not parse and returns Ok     *)
(* with what it has collected.                                             *)
(***************************************************************************)
RECURSIVE parse_program(_)
parse_program(input) ==
    IF input = <<>> THEN <<>>
    ELSE IF Head(input).part = "Malformed" THEN <<>>
    ELSE <<Head(input)>> \o parse_program(Tail(input))

(***************************************************************************)
(* HashMap helpers.                                                        *)
(***************************************************************************)
EmptyMap == <<>>
contains_key(m, k) == k \in DOMAIN m
insert(m, k, v) == [x \in (DOMAIN m) \cup {k} |-> IF x = k THEN v ELSE m[x]]

\* Engine::new
Engine_new == [default_variables |-> EmptyMap, all_nodes |-> EmptyMap]

\* Engine::add_node
add_node(engine, id, node) ==
    [engine EXCEPT !.all_nodes = insert(engine.all_nodes, id, node)]

(***************************************************************************)
(* engine.rs: the validator.                                               *)
(***************************************************************************)
SelectNames(parts) == SelectSeq(parts, LAMBDA part : part.kind = "Name")

\* Engine::bad_names_in_string
bad_names_in_string(engine, s) ==
    LET names == SelectNames(s)
        bad == SelectSeq(names,
                         LAMBDA part : ~contains_key(engine.default_variables, part.text))
    IN  [k \in 1..Len(bad) |-> bad[k].text]

\* Engine::bad_names_in_expression
RECURSIVE bad_names_in_expression(_, _)
bad_names_in_expression(engine, expr) ==
    CASE expr.op = "Value" -> <<>>
      [] expr.op = "Name" ->
            IF ~contains_key(engine.default_variables, expr.name)
            THEN <<expr.name>> ELSE <<>>
      [] OTHER ->
            bad_names_in_expression(engine, expr.left)
                \o bad_names_in_expression(engine, expr.right)

\* operand_is_int as it would be if any declared name counted as an Int
operand_is_int_declared(engine, e) ==
    IF e.op = "Value" /\ e.v.tag = "Int" THEN TRUE
    ELSE IF e.op = "Name"
         THEN contains_key(engine.default_variables, e.name)
         ELSE FALSE

\* the left_is_int / right_is_int tests of Engine::expression_is_valid
operand_is_int(engine, e) ==
    IF e.op = "Value" /\ e.v.tag = "Int" THEN TRUE
    ELSE IF e.op = "Name"
         THEN contains_key(engine.default_variables, e.name)
                /\ engine.default_variables[e.name].tag = "Int"
         ELSE FALSE

\* Engine::expression_is_valid
RECURSIVE expression_is_valid(_, _)
expression_is_valid(engine, expr) ==
    CASE expr.op = "Value" -> TRUE
      [] expr.op = "Name" -> contains_key(engine.default_variables, expr.name)
      [] expr.op \in {"Equals", "NotEquals"} ->
            expression_is_valid(engine, expr.left)
                /\ expression_is_valid(engine, expr.right)
      [] expr.op \in {"GreaterThan", "LessThan"} ->
            IF operand_is_int(engine, expr.left) /\ operand_is_int(engine, expr.right)
            THEN expression_is_valid(engine, expr.left)
                    /\ expression_is_valid(engine, expr.right)
            ELSE FALSE

\* Engine::bad_names_in_command
bad_names_in_command(engine, command) ==
    (IF ~contains_key(engine.default_variables, command.name)
     THEN <<command.name>> ELSE <<>>)
    \o (IF command.value.tag = "String"
        THEN bad_names_in_string(engine, command.value.s) ELSE <<>>)

\* Engine::command_is_valid
command_is_valid(engine, command) ==
    contains_key(engine.default_variables, command.name)
        /\ CASE command.value.tag \in {"Int", "Bool"} -> TRUE
             [] command.value.tag = "String" ->
                    bad_names_in_string(engine, command.value.s) = <<>>

\* the ParseError records
MissingStartNode == [err |-> "MissingStartNode"]
BadReferenceInOption(id, bad) ==
    [err |-> "BadReferenceInOption", parent_node_id |-> id, bad_id |-> bad]
BadReferenceInString(id, bad) ==
    [err |-> "BadReferenceInString", parent_node_id |-> id, bad_name |-> bad]
BadReferenceInExpression(id, bad) ==
    [err |-> "BadReferenceInExpression", parent_node_id |-> id, bad_name |-> bad]
InvalidExpression(id, e) ==
    [err |-> "InvalidExpression", parent_node_id |-> id, expression |-> e]
BadReferenceInCommand(id, bad) ==
    [err |-> "BadReferenceInCommand", parent_node_id |-> id, bad_name |-> bad]
InvalidCommand(id, c) ==
    [err |-> "InvalidCommand", parent_node_id |-> id, command |-> c]

\* the records Engine::errors pushes for one choice of node id (lines 219-266)
choice_errors(engine, id, choice) ==
    LET text_bad == bad_names_in_string(engine, choice.text)
        req_bad == IF choice.requirement # None
                   THEN bad_names_in_expression(engine, choice.requirement[1])
                   ELSE <<>>
        cmd_bad == IF choice.command # None
                   THEN bad_names_in_command(engine, choice.command[1])
                   ELSE <<>>
    IN  [k \in 1..Len(text_bad) |-> BadReferenceInString(id, text_bad[k])]
        \o (IF ~contains_key(engine.all_nodes, choice.next_node_id)
            THEN <<BadReferenceInOption(id, choice.next_node_id)>> ELSE <<>>)
        \o [k \in 1..Len(req_bad) |-> BadReferenceInExpression(id, req_bad[k])]
        \o (IF choice.requirement # None
               /\ ~expression_is_valid(engine, choice.requirement[1])
            THEN <<InvalidExpression(id, choice.requirement[1])>> ELSE <<>>)
        \o [k \in 1..Len(cmd_bad) |-> BadReferenceInCommand(id, cmd_bad[k])]
        \o (IF choice.command # None /\ ~command_is_valid(engine, choice.command[1])
            THEN <<InvalidCommand(id, choice.command[1])>> ELSE <<>>)

RECURSIVE choices_errors(_, _, _)
choices_errors(engine, id, choices) ==
    IF choices = <<>> THEN <<>>
    ELSE choice_errors(engine, id, Head(choices))
            \o choices_errors(engine, id, Tail(choices))

\* the records Engine::errors pushes for one node (lines 211-267)
node_errors(engine, id) ==
    LET node == engine.all_nodes[id]
        text_bad == bad_names_in_string(engine, node.display_text)
    IN  [k \in 1..Len(text_bad) |-> BadReferenceInString(id, text_bad[k])]
        \o choices_errors(engine, id, node.choices)

RECURSIVE nodes_errors(_, _)
nodes_errors(engine, order) ==
    IF order = <<>> THEN <<>>
    ELSE node_errors(engine, Head(order)) \o nodes_errors(engine, Tail(order))

\* errors as it would be without the test for the START node
errors_without_start(engine, order) == nodes_errors(engine, order)

\* Engine::errors; order is the order in which the HashMap all_nodes
\* yields its entries
errors(engine, order) ==
    (IF ~contains_key(engine.all_nodes, "START") THEN <<MissingStartNode>> ELSE <<>>)
    \o nodes_errors(engine, order)

\* the iteration orders of a HashMap with the key set S
Orders(S) ==
    {o \in [1..Cardinality(S) -> S] : \A k1, k2 \in 1..Cardinality(S) :
                                          k1 # k2 => o[k1] # o[k2]}

\* the two insertion loops of Engine::from_program (lines 284-299)
RECURSIVE insert_variables(_, _)
insert_variables(engine, defs) ==
    IF defs = <<>> THEN engine
    ELSE insert_variables(
            [engine EXCEPT !.default_variables =
                insert(engine.default_variables, Head(defs).name, Head(defs).value)],
            Tail(defs))

RECURSIVE insert_nodes(_, _)
insert_nodes(engine, defs) ==
    IF defs = <<>> THEN engine
    ELSE insert_nodes(add_node(engine, Head(defs).id, Head(defs).node), Tail(defs))

\* the engine Engine::from_program fills before it validates
loaded_engine(src) ==
    LET parts == parse_program(src)
        variable_defs == SelectSeq(parts, LAMBDA p : p.part = "VariableDefinition")
        node_defs == SelectSeq(parts, LAMBDA p : p.part = "NodeDefinition")
    IN  insert_nodes(insert_variables(Engine_new, variable_defs), node_defs)

\* Engine::from_program: Ok(engine) or Err(errors)
from_program(src, order) ==
    LET engine == loaded_engine(src)
        errs == errors(engine, order)
    IN  IF errs = <<>> THEN [tag |-> "Ok", engine |-> engine]
        ELSE [tag |-> "Err", errors |-> errs]

(***************************************************************************)
(* engine.rs: the evaluator.  A result is [st |-> "ok", ...] or a record   *)
(* whose st names how the call dies: "unwrap_none" (Option::unwrap on a    *)
(* failed lookup), "not_int" (the panic! of an ordering operator) or       *)
(* "stack_overflow" (recursion without end).                               *)
(***************************************************************************)
Ok(str) == [st |-> "ok", str |-> str]
Died(how) == [st |-> how]

Digit(d) ==
    CASE d = 0 -> "0" [] d = 1 -> "1" [] d = 2 -> "2" [] d = 3 -> "3" [] d = 4 -> "4"
      [] d = 5 -> "5" [] d = 6 -> "6" [] d = 7 -> "7" [] d = 8 -> "8" [] d = 9 -> "9"

RECURSIVE NatToString(_)
NatToString(n) ==
    IF n < 10 THEN Digit(n) ELSE NatToString(n \div 10) \o Digit(n % 10)

\* i32::to_string
IntToString(i) == IF i < 0 THEN "-" \o NatToString(-i) ELSE NatToString(i)

\* bool::to_string
BoolToString(b) == IF b THEN "true" ELSE "false"

\* Engine::value_to_string and Engine::evaluate_string call each other.
\* visiting is the set of the names whose values are being rendered on the
\* call stack: the session does not change during a call, so meeting one of
\* them again repeats the same calls without end.
RECURSIVE evaluate_string_in(_, _, _)
value_to_string_in(variables, value, visiting) ==
    CASE value.tag = "Int" -> Ok(IntToString(value.i))
      [] value.tag = "Bool" -> Ok(BoolToString(value.b))
      [] value.tag = "String" -> evaluate_string_in(variables, value.s, visiting)

evaluate_string_in(variables, input, visiting) ==
    IF input = <<>> THEN Ok("")
    ELSE LET part == Head(input)
             first ==
                 IF part.kind = "Literal" THEN Ok(part.text)
                 ELSE IF ~contains_key(variables, part.text) THEN Died("unwrap_none")
                 ELSE IF part.text \in visiting THEN Died("stack_overflow")
                 ELSE value_to_string_in(variables, variables[part.text],
                                         visiting \cup {part.text})
         IN  IF first.st # "ok" THEN first
             ELSE LET rest == evaluate_string_in(variables, Tail(input), visiting)
                  IN  IF rest.st # "ok" THEN rest ELSE Ok(first.str \o rest.str)

\* Engine::evaluate_string
evaluate_string(session, input) == evaluate_string_in(session.variables, input, {})

\* Engine::value_to_string
value_to_string(session, value) == value_to_string_in(session.variables, value, {})

OkBool(b) == [st |-> "ok", b |-> b]
OkValue(v) == [st |-> "ok", v |-> v]

\* values_are_equal as it would be if every pair were compared by its text
values_are_equal_rendered(session, left, right) ==
    LET l == value_to_string(session, left)
    IN  IF l.st # "ok" THEN l
        ELSE LET r == value_to_string(session, right)
             IN  IF r.st # "ok" THEN r ELSE OkBool(l.str = r.str)

\* Engine::values_are_equal
values_are_equal(session, left, right) ==
    CASE left.tag = "Int" /\ right.tag = "Int" -> OkBool(left.i = right.i)
      [] left.tag = "Bool" /\ right.tag = "Bool" -> OkBool(left.b = right.b)
      [] left.tag = "String" /\ right.tag = "String" ->
            LET l == evaluate_string(session, left.s)
            IN  IF l.st # "ok" THEN l
                ELSE LET r == evaluate_string(session, right.s)
                     IN  IF r.st # "ok" THEN r ELSE OkBool(l.str = r.str)
      [] OTHER -> OkBool(FALSE)

\* Engine::evaluate_expression
RECURSIVE evaluate_expression(_, _)
evaluate_expression(session, input) ==
    CASE input.op = "Value" -> OkValue(input.v)
      [] input.op = "Name" ->
            IF contains_key(session.variables, input.name)
            THEN OkValue(session.variables[input.name])
            ELSE Died("unwrap_none")
      [] OTHER ->
            LET left_val == evaluate_expression(session, input.left)
            IN  IF left_val.st # "ok" THEN left_val
                ELSE
                LET right_val == evaluate_expression(session, input.right)
                IN  IF right_val.st # "ok" THEN right_val
                    ELSE
                    CASE input.op \in {"Equals", "NotEquals"} ->
                            LET eq == values_are_equal(session, left_val.v, right_val.v)
                            IN  IF eq.st # "ok" THEN eq
                                ELSE OkValue(ValueBool(IF input.op = "Equals"
                                                       THEN eq.b ELSE ~eq.b))
                      [] input.op \in {"GreaterThan", "LessThan"} ->
                            IF left_val.v.tag = "Int" /\ right_val.v.tag = "Int"
                            THEN OkValue(ValueBool(IF input.op = "GreaterThan"
                                                   THEN left_val.v.i > right_val.v.i
                                                   ELSE left_val.v.i < right_val.v.i))
                            ELSE Died("not_int")

(***************************************************************************)
(* engine.rs: the session state machine.                                   *)
(***************************************************************************)
\* new_session as it would be if the defaults were not copied
new_session_unbound(engine) ==
    [variables |-> EmptyMap, current_node_id |-> "START"]

\* Engine::new_session
new_session(engine) ==
    [variables |-> engine.default_variables, current_node_id |-> "START"]

\* get_valid_options_ids as it would be if it kept only the choices that
\* get_current_node_view shows
get_valid_options_ids_visible(engine, session) ==
    LET choices == engine.all_nodes[session.current_node_id].choices
        shown == SelectSeq(choices,
                    LAMBDA c : \/ c.requirement = None
                               \/ LET req == evaluate_expression(session, c.requirement[1])
                                  IN  req.st = "ok" /\ is_truthy(req.v))
    IN  [k \in 1..Len(shown) |-> shown[k].next_node_id]

\* Engine::get_valid_options_ids (on a session whose current node exists)
get_valid_options_ids(engine, session) ==
    LET choices == engine.all_nodes[session.current_node_id].choices
    IN  [k \in 1..Len(choices) |-> choices[k].next_node_id]

contains(seq, x) == \E k \in 1..Len(seq) : seq[k] = x

ChoiceView(id, text) == [id |-> id, display_text |-> text]

\* the filter_map of Engine::get_current_node_view (lines 402-417): the
\* choices are visited in order and the first call that dies ends the walk
RECURSIVE visible_choices(_, _)
visible_choices(session, choices) ==
    IF choices = <<>> THEN [st |-> "ok", choices |-> <<>>]
    ELSE
    LET choice == Head(choices)
        req == IF choice.requirement # None
               THEN evaluate_expression(session, choice.requirement[1])
               ELSE OkValue(ValueBool(TRUE))
    IN  IF req.st # "ok" THEN req
        ELSE IF choice.requirement # None /\ ~is_truthy(req.v)
        THEN visible_choices(session, Tail(choices))
        ELSE LET text == evaluate_string(session, choice.text)
             IN  IF text.st # "ok" THEN text
                 ELSE LET rest == visible_choices(session, Tail(choices))
                      IN  IF rest.st # "ok" THEN rest
                          ELSE [st |-> "ok",
                                choices |-> <<ChoiceView(choice.next_node_id, text.str)>>
                                                \o rest.choices]

\* game_over as it would be if it counted the visible choices
game_over_visible(current_node, choices) == choices = <<>>

\* Engine::get_current_node_view, line 418; choices are the visible ones
game_over(current_node, choices) == current_node.choices = <<>>

\* Engine::get_current_node_view
get_current_node_view(engine, session) ==
    IF ~contains_key(engine.all_nodes, session.current_node_id)
    THEN Died("unwrap_none")
    ELSE
    LET current_node == engine.all_nodes[session.current_node_id]
        display_text == evaluate_string(session, current_node.display_text)
    IN  IF display_text.st # "ok" THEN display_text
        ELSE LET choices == visible_choices(session, current_node.choices)
             IN  IF choices.st # "ok" THEN choices
                 ELSE [st |-> "ok",
                       display_text |-> display_text.str,
                       choices |-> choices.choices,
                       game_over |-> game_over(current_node, choices.choices)]

\* do_command as it would be if the assignment were lost
do_command_dropped(session, command) == session

\* Engine::do_command (on a session that binds the name)
do_command(session, command) ==
    [session EXCEPT !.variables[command.name] = command.value]

Success == [tag |-> "Success"]
InvalidOption(node, chosen) ==
    [tag |-> "InvalidOption", current_node_id |-> node, chosen_option |-> chosen]
Panicked(how) == [tag |-> "Panic", how |-> how]

\* find_choice as it would be if the last choice with the target id were taken
find_choice_last(choices, id) ==
    choices[CHOOSE k \in 1..Len(choices) :
                /\ choices[k].next_node_id = id
                /\ \A j \in (k + 1)..Len(choices) : choices[j].next_node_id # id]

\* the first choice of the sequence with the target id (Iterator::find)
find_choice(choices, id) ==
    choices[CHOOSE k \in 1..Len(choices) :
                /\ choices[k].next_node_id = id
                /\ \A j \in 1..(k - 1) : choices[j].next_node_id # id]

\* reject_option as it would be if the rejected id were stored before the check
reject_option_moves(session, next_node_id) ==
    [session |-> [session EXCEPT !.current_node_id = next_node_id],
     result |-> InvalidOption(session.current_node_id, next_node_id)]

\* Engine::choose_option, lines 438-443: the id is no authored target
reject_option(session, next_node_id) ==
    [session |-> session,
     result |-> InvalidOption(session.current_node_id, next_node_id)]

\* Engine::choose_option, lines 452-458: run the command of the choice found,
\* then move to the target
take_choice(session, choice, next_node_id) ==
    IF choice.command # None /\ ~contains_key(session.variables, choice.command[1].name)
    THEN [session |-> session, result |-> Panicked("unwrap_none")]
    ELSE LET after == IF choice.command # None
                      THEN do_command(session, choice.command[1])
                      ELSE session
         IN  [session |-> [after EXCEPT !.current_node_id = next_node_id],
              result |-> Success]

\* Engine::choose_option: the session it leaves and the result it returns
choose_option(engine, session, next_node_id) ==
    IF ~contains_key(engine.all_nodes, session.current_node_id)
    THEN [session |-> session, result |-> Panicked("unwrap_none")]
    ELSE
    LET valid_options == get_valid_options_ids(engine, session)
    IN  IF ~contains(valid_options, next_node_id)
        THEN reject_option(session, next_node_id)
        ELSE take_choice(session,
                         find_choice(engine.all_nodes[session.current_node_id].choices,
                                     next_node_id),
                         next_node_id)

(***************************************************************************)
(* The scripts of the model.  A story script declares the variables x and  *)
(* s and the nodes START and A; the name z is never declared.              *)
(***************************************************************************)
Options(S) == {None} \cup {Some(e) : e \in S}

XDefaults ==
    {ValueInt(0), ValueInt(0 - MaxInt), ValueBool(FALSE), ValueString(<<>>)}

SDefaults ==
    {ValueString(fs) : fs \in {<<Literal("a")>>, <<Name("x")>>, <<Name("z")>>}}

StoryExpressions ==
    {ExprName("x"), ExprName("s"), ExprValue(ValueString(<<>>)),
     ExprBinary("GreaterThan", ExprName("x"), ExprValue(ValueInt(0))),
     ExprBinary("LessThan", ExprValue(ValueInt(0)), ExprName("x")),
     ExprBinary("Equals", ExprName("s"), ExprValue(ValueString(<<Literal("0")>>))),
     ExprBinary("NotEquals", ExprName("x"), ExprValue(ValueInt(0))),
     ExprBinary("Equals", ExprValue(ValueString(<<Name("z")>>)),
                ExprValue(ValueString(<<Literal("a")>>)))}

StoryCommands ==
    {CommandSet("x", ValueInt(MaxInt)),
     CommandSet("x", ValueBool(TRUE)),
     CommandSet("s", ValueString(<<>>)),
     CommandSet("s", ValueString(<<Name("s")>>))}

FirstChoices ==
    {Choice(req, <<Name("x")>>, target, command) :
        req \in Options(StoryExpressions),
        target \in {"START", "A"},
        command \in Options(StoryCommands)}

\* the choices authored after the first one of START: none, or two
ExtraChoices ==
    {<<>>,
     <<Choice(None, <<Literal("b")>>, "A", None),
       Choice(Some(ExprName("x")), <<Literal("c")>>, "START",
              Some(CommandSet("x", ValueInt(0))))>>}

StoryScripts ==
    {<<VariableDefinition("x", xdef),
       VariableDefinition("s", sdef),
       NodeDefinition("START", Node(<<Literal("a"), Name("x")>>, <<first>> \o extra)),
       NodeDefinition("A", Node(<<Name("s")>>, <<>>))>> :
        xdef \in XDefaults, sdef \in SDefaults,
        first \in FirstChoices, extra \in ExtraChoices}

(***************************************************************************)
(* The scripts handed to the validator alone.  They declare s, declare x   *)
(* with an Int, with a Bool, twice or not at all, and one node (START or   *)
(* N) with one choice, with or without the node A.                         *)
(***************************************************************************)
BuildPrimaries ==
    {ExprValue(ValueInt(0)), ExprValue(ValueBool(TRUE)),
     ExprValue(ValueString(<<Literal("a")>>)), ExprValue(ValueString(<<Name("z")>>)),
     ExprName("x"), ExprName("s"), ExprName("z")}

Operators == {"Equals", "NotEquals", "GreaterThan", "LessThan"}
Ordering == {"GreaterThan", "LessThan"}

BuildExpressions ==
    BuildPrimaries
    \cup {ExprBinary(o, l, r) : o \in Operators, l \in BuildPrimaries, r \in BuildPrimaries}

BuildCommands ==
    {CommandSet("x", ValueInt(MaxInt)), CommandSet("z", ValueInt(0)),
     CommandSet("x", ValueString(<<Name("z")>>))}

BuildVariables ==
    {<<>>,
     <<VariableDefinition("x", ValueInt(0))>>,
     <<VariableDefinition("x", ValueBool(FALSE))>>,
     <<VariableDefinition("x", ValueInt(0)), VariableDefinition("x", ValueBool(FALSE))>>}

BuildNodes ==
    {<<NodeDefinition(id, Node(text, <<Choice(req, <<Name("x")>>, "A", command)>>))>>
        \o tail :
        id \in {"START", "N"},
        text \in {<<Literal("a")>>, <<Name("z"), Name("z")>>},
        req \in Options(BuildExpressions),
        command \in Options(BuildCommands),
        tail \in {<<>>, <<NodeDefinition("A", Node(<<Name("s")>>, <<>>))>>}}

BuildScripts ==
    {<<VariableDefinition("s", ValueString(<<Literal("a")>>))>> \o variables \o nodes :
        variables \in BuildVariables, nodes \in BuildNodes}

(***************************************************************************)
(* The scripts handed to the parser: a well-formed script, or one with a   *)
(* declaration that does not parse somewhere in it.                        *)
(***************************************************************************)
ParseBases ==
    {<<VariableDefinition("s", ValueString(<<Literal("a")>>))>> \o variables
        \o <<NodeDefinition(id, Node(<<Literal("a")>>,
                                     <<Choice(req, <<Name("s")>>, target, None)>>))>>
        \o tail :
        variables \in BuildVariables,
        id \in {"START", "N"},
        req \in Options(BuildPrimaries),
        target \in {"START", "A"},
        tail \in {<<>>, <<NodeDefinition("A", Node(<<Name("s")>>, <<>>))>>}}

InsertAt(seq, k, e) == SubSeq(seq, 1, k - 1) \o <<e>> \o SubSeq(seq, k, Len(seq))

ParseScripts ==
    ParseBases
    \cup UNION {{InsertAt(b, k, Malformed) : k \in 1..(Len(b) + 1)} : b \in ParseBases}

(***************************************************************************)
(* The scripts with an equality requirement: s is declared as "{x}", x     *)
(* with an Int, a Bool or a String, and START has one choice, back to      *)
(* START, that may assign x.                                               *)
(***************************************************************************)
EqualityDefaults == {ValueInt(0), ValueBool(FALSE), ValueString(<<Literal("0")>>)}

EqualityOperands ==
    {ExprName("x"), ExprName("s"), ExprValue(ValueInt(0)), ExprValue(ValueBool(FALSE)),
     ExprValue(ValueString(<<Literal("0")>>)), ExprValue(ValueString(<<Literal("false")>>))}

EqualityCommands ==
    {CommandSet("x", ValueInt(MaxInt)), CommandSet("x", ValueString(<<Literal("0")>>))}

EqualityScripts ==
    {<<VariableDefinition("x", xdef),
       VariableDefinition("s", ValueString(<<Name("x")>>)),
       NodeDefinition("START",
            Node(<<Literal("a")>>,
                 <<Choice(Some(ExprBinary(o, l, r)), <<Name("s")>>, "START", command)>>))>> :
        xdef \in EqualityDefaults,
        o \in {"Equals", "NotEquals"},
        l \in {ExprName("x"), ExprName("s")},
        r \in EqualityOperands,
        command \in Options(EqualityCommands)}

\* the ids a client may send to choose_option; B is never declared
ChosenIds == {"START", "A", "B"}

(***************************************************************************)
(* The state machine.                                                      *)
(*   source    the declarations of the script handed to from_program       *)
(*   built     what from_program returned (NotBuilt before the call)       *)
(*   sessions  the sessions spawned from the engine, in order of creation  *)
(*   last      the last call and what it returned; for choose_option also  *)
(*             the session as it was before the call                       *)
(***************************************************************************)
NotBuilt == [tag |-> "NotBuilt"]
NoCall == [op |-> "none"]

Init ==
    /\ source \in StoryScripts
    /\ built = NotBuilt
    /\ sessions = <<>>
    /\ last = NoCall

\* main: Engine::from_program(source)
FromProgram ==
    /\ built = NotBuilt
    /\ \E order \in Orders(DOMAIN loaded_engine(source).all_nodes) :
            built' = from_program(source, order)
    /\ last' = [op |-> "from_program"]
    /\ UNCHANGED <<source, sessions>>

\* create_session: Engine::new_session
NewSession ==
    /\ built.tag = "Ok"
    /\ Len(sessions) < MaxSessions
    /\ sessions' = Append(sessions, new_session(built.engine))
    /\ last' = [op |-> "new_session", sid |-> Len(sessions) + 1]
    /\ UNCHANGED <<source, built>>

\* get_current_node: Engine::get_current_node_view on session sid
Render(sid) ==
    /\ built.tag = "Ok"
    /\ last' = [op |-> "get_current_node_view", sid |-> sid,
                view |-> get_current_node_view(built.engine, sessions[sid])]
    /\ UNCHANGED <<source, built, sessions>>

\* ChooseOption as it would be if the sessions shared one map of variables
ChooseOption_shared(sid, id) ==
    /\ built.tag = "Ok"
    /\ LET r == choose_option(built.engine, sessions[sid], id)
       IN  /\ sessions' = [k \in 1..Len(sessions) |->
                              IF k = sid THEN r.session
                              ELSE [sessions[k] EXCEPT !.variables = r.session.variables]]
           /\ last' = [op |-> "choose_option", sid |-> sid, arg |-> id,
                       before |-> sessions[sid], result |-> r.result]
    /\ UNCHANGED <<source, built>>

\* choose_option: Engine::choose_option on session sid
ChooseOption(sid, id) ==
    /\ built.tag = "Ok"
    /\ LET r == choose_option(built.engine, sessions[sid], id)
       IN  /\ sessions' = [sessions EXCEPT ![sid] = r.session]
           /\ last' = [op |-> "choose_option", sid |-> sid, arg |-> id,
                       before |-> sessions[sid], result |-> r.result]
    /\ UNCHANGED <<source, built>>

Next ==
    \/ FromProgram
    \/ NewSession
    \/ \E sid \in 1..Len(sessions) : Render(sid)
    \/ \E sid \in 1..Len(sessions), id \in ChosenIds : ChooseOption(sid, id)

Spec == Init /\ [][Next]_vars

\* the parser and the validator, on the scripts that may not parse
InitParse ==
    /\ source \in ParseScripts
    /\ built = NotBuilt
    /\ sessions = <<>>
    /\ last = NoCall

NextParse == FromProgram

SpecParse == InitParse /\ [][NextParse]_vars

\* the sessions of the scripts with an equality requirement
InitEquality ==
    /\ source \in EqualityScripts
    /\ built = NotBuilt
    /\ sessions = <<>>
    /\ last = NoCall

SpecEquality == InitEquality /\ [][Next]_vars

\* the validator alone, on the scripts with defects
InitBuild ==
    /\ source \in BuildScripts
    /\ built = NotBuilt
    /\ sessions = <<>>
    /\ last = NoCall

NextBuild == FromProgram

SpecBuild == InitBuild /\ [][NextBuild]_vars

(***************************************************************************)
(* Properties of choose_option.                                            *)
(***************************************************************************)
\* the node a session is at
NodeOf(session) == built.engine.all_nodes[session.current_node_id]

\* id is the target of an authored choice of the node
Authored(node, id) == \E k \in 1..Len(node.choices) : node.choices[k].next_node_id = id

LastIsChoose == built.tag = "Ok" /\ last.op = "choose_option"

\* C1: choose_option with an id that is no authored target of the current
\* node returns InvalidOption with the current node id and the rejected id,
\* and leaves the session's node and variables as they were.
C1_InvalidOptionLeavesSession ==
    (LastIsChoose /\ ~Authored(NodeOf(last.before), last.arg)) =>
        /\ last.result.tag = "InvalidOption"
        /\ last.result.current_node_id = last.before.current_node_id
        /\ last.result.chosen_option = last.arg
        /\ sessions[last.sid].current_node_id = last.before.current_node_id
        /\ sessions[last.sid].variables = last.before.variables

\* a session that has advanced to A and changed a variable on the way is
\* asked for START, a declared node that A does not lead to
C1_Witness ==
    /\ LastIsChoose
    /\ last.result.tag = "InvalidOption"
    /\ last.before.current_node_id = "A"
    /\ last.arg = "START"
    /\ last.before.variables # built.engine.default_variables

\* the session a choice leads to: its command applied, then the move
AfterChoice(session, choice) ==
    [variables |->
        IF choice.command = None THEN session.variables
        ELSE [n \in DOMAIN session.variables |->
                IF n = choice.command[1].name THEN choice.command[1].value
                ELSE session.variables[n]],
     current_node_id |-> choice.next_node_id]

\* C2: a successful choose_option is one transition: the session is at the
\* chosen id and its variables are the previous ones with the command of a
\* choice with that target applied; a session with only one of the two
\* effects is never left behind.
C2_SuccessIsOneTransition ==
    (LastIsChoose /\ Authored(NodeOf(last.before), last.arg)) =>
        /\ last.result = Success
        /\ sessions[last.sid].current_node_id = last.arg
        /\ \E k \in 1..Len(NodeOf(last.before).choices) :
              /\ NodeOf(last.before).choices[k].next_node_id = last.arg
              /\ sessions[last.sid] = AfterChoice(last.before, NodeOf(last.before).choices[k])

\* a successful call that moved the session and changed a variable
C2_Witness ==
    /\ LastIsChoose
    /\ last.result = Success
    /\ last.before.current_node_id # last.arg
    /\ sessions[last.sid].variables # last.before.variables

\* C5: choose_option returns Success exactly when the id is the target of an
\* authored choice of the current node, whatever the requirement of that
\* choice evaluates to.
C5_SuccessIffAuthored ==
    LastIsChoose =>
        (last.result = Success <=> Authored(NodeOf(last.before), last.arg))

\* the only choice with the chosen target was hidden by a falsy requirement,
\* and its command has been applied
C5_Witness ==
    /\ LastIsChoose
    /\ last.result = Success
    /\ LET choices == NodeOf(last.before).choices
       IN  /\ Len(choices) = 1
           /\ choices[1].requirement # None
           /\ choices[1].command # None
           /\ LET req == evaluate_expression(last.before, choices[1].requirement[1])
              IN  req.st = "ok" /\ ~is_truthy(req.v)
           /\ sessions[last.sid].variables[choices[1].command[1].name]
                = choices[1].command[1].value
           /\ sessions[last.sid].variables # last.before.variables

(***************************************************************************)
(* Properties of the evaluator and of get_current_node_view.               *)
(***************************************************************************)
LastIsRender == built.tag = "Ok" /\ last.op = "get_current_node_view"

\* C3: on an engine that from_program returned, no lookup of the evaluator
\* fails, in get_current_node_view or in choose_option.
C3_NoLookupFails ==
    /\ LastIsRender => last.view.st # "unwrap_none"
    /\ LastIsChoose => last.result # Panicked("unwrap_none")

\* C4: on an engine that from_program returned, an ordering operator is only
\* ever evaluated on two Ints.
C4_OrderingOperandsAreInt ==
    LastIsRender => last.view.st # "not_int"

\* truthiness as the specification states it
Truthy(v) ==
    \/ v.tag = "Bool" /\ v.b = TRUE
    \/ v.tag = "Int" /\ v.i # 0
    \/ v.tag = "String" /\ Len(v.s) > 0

Shown(session, choice) ==
    \/ choice.requirement = None
    \/ Truthy(evaluate_expression(session, choice.requirement[1]).v)

\* the positions of the authored choices that are shown, in increasing order
ShownPositions(session, choices) ==
    {k \in 1..Len(choices) : Shown(session, choices[k])}

\* C6: the visible choices of a view are the authored choices of the current
\* node that have no requirement or a truthy one, in authored order, each with
\* its target id and its rendered text.
C6_VisibleChoices ==
    (LastIsRender /\ last.view.st = "ok") =>
        LET session == sessions[last.sid]
            authored == NodeOf(session).choices
            shown == ShownPositions(session, authored)
            visible == last.view.choices
        IN  /\ Len(visible) = Cardinality(shown)
            /\ \E pos \in [1..Len(visible) -> shown] :
                  /\ \A j, k \in 1..Len(visible) : j < k => pos[j] < pos[k]
                  /\ \A k \in 1..Len(visible) :
                        /\ visible[k].id = authored[pos[k]].next_node_id
                        /\ visible[k].display_text
                             = evaluate_string(session, authored[pos[k]].text).str

\* a view that shows two of three authored choices: the first one is hidden
\* by a requirement
C6_Witness ==
    /\ LastIsRender
    /\ last.view.st = "ok"
    /\ Len(NodeOf(sessions[last.sid]).choices) = 3
    /\ Len(last.view.choices) = 2
    /\ NodeOf(sessions[last.sid]).choices[1].requirement # None
    /\ last.view.choices[1].id = "A"
    /\ last.view.choices[2].id = "START"

\* C7: game_over is true exactly when the current node has no authored
\* choice, however many are visible; at such a node every choose_option is
\* rejected and the session stays there.
C7_GameOverIffNoAuthoredChoice ==
    /\ (LastIsRender /\ last.view.st = "ok") =>
            (last.view.game_over <=> Len(NodeOf(sessions[last.sid]).choices) = 0)
    /\ (LastIsChoose /\ Len(NodeOf(last.before).choices) = 0) =>
            /\ last.result.tag = "InvalidOption"
            /\ sessions[last.sid] = last.before

\* every authored choice is hidden and the game is not over
C7_Witness ==
    /\ LastIsRender
    /\ last.view.st = "ok"
    /\ Len(NodeOf(sessions[last.sid]).choices) > 0
    /\ last.view.choices = <<>>
    /\ last.view.game_over = FALSE

(***************************************************************************)
(* Properties of from_program.                                             *)
(***************************************************************************)
Called == built.tag # "NotBuilt"

\* the error list from_program returned, empty when it returned an engine
ReturnedErrors == IF built.tag = "Err" THEN built.errors ELSE <<>>

DeclaredVariables(engine) == DOMAIN engine.default_variables

NamesOfString(fs) == {fs[k].text : k \in {j \in 1..Len(fs) : fs[j].kind = "Name"}}

\* the operands of a requirement: itself when it has no operator
Operands(e) == IF e.op \in Operators THEN {e.left, e.right} ELSE {e}

NamesOfExpression(e) == {o.name : o \in {p \in Operands(e) : p.op = "Name"}}

\* an integer literal, or a name whose declared default is an Int
StaticallyInt(engine, o) ==
    \/ o.op = "Value" /\ o.v.tag = "Int"
    \/ /\ o.op = "Name"
       /\ o.name \in DeclaredVariables(engine)
       /\ engine.default_variables[o.name].tag = "Int"

RequirementPasses(engine, e) ==
    /\ NamesOfExpression(e) \subseteq DeclaredVariables(engine)
    /\ e.op \in Ordering => \A o \in Operands(e) : StaticallyInt(engine, o)

CommandPasses(engine, c) ==
    /\ c.name \in DeclaredVariables(engine)
    /\ c.value.tag = "String" => NamesOfString(c.value.s) \subseteq DeclaredVariables(engine)

ChoicePasses(engine, c) ==
    /\ NamesOfString(c.text) \subseteq DeclaredVariables(engine)
    /\ c.next_node_id \in DOMAIN engine.all_nodes
    /\ c.requirement # None => RequirementPasses(engine, c.requirement[1])
    /\ c.command # None => CommandPasses(engine, c.command[1])

\* every check of the validator passes
Validates(engine) ==
    /\ "START" \in DOMAIN engine.all_nodes
    /\ \A id \in DOMAIN engine.all_nodes :
          /\ NamesOfString(engine.all_nodes[id].display_text)
                \subseteq DeclaredVariables(engine)
          /\ \A k \in 1..Len(engine.all_nodes[id].choices) :
                ChoicePasses(engine, engine.all_nodes[id].choices[k])

\* C8: from_program returns the engine exactly when START is declared and
\* every check passes; otherwise it returns a non-empty list of errors and
\* no engine.
C8_BuildIsAllOrNothing ==
    Called =>
        LET engine == loaded_engine(source)
        IN  /\ Validates(engine) => (built.tag = "Ok" /\ built.engine = engine)
            /\ ~Validates(engine) => (built.tag = "Err" /\ Len(built.errors) > 0)

\* a script with an ordering requirement and a command is accepted
C8_Witness ==
    /\ built.tag = "Ok"
    /\ LET c == built.engine.all_nodes["START"].choices[1]
       IN  /\ c.requirement # None
           /\ c.requirement[1].op \in Ordering
           /\ c.command # None

\* the bad references of a choice, each counted once
ChoiceBadReferences(engine, c) ==
    Cardinality(NamesOfString(c.text) \ DeclaredVariables(engine))
    + (IF c.next_node_id \in DOMAIN engine.all_nodes THEN 0 ELSE 1)
    + (IF c.requirement = None THEN 0
       ELSE Cardinality(NamesOfExpression(c.requirement[1]) \ DeclaredVariables(engine)))
    + (IF c.command = None THEN 0
       ELSE Cardinality(({c.command[1].name}
                            \cup (IF c.command[1].value.tag = "String"
                                  THEN NamesOfString(c.command[1].value.s) ELSE {}))
                        \ DeclaredVariables(engine)))

RECURSIVE ChoicesBadReferences(_, _)
ChoicesBadReferences(engine, choices) ==
    IF choices = <<>> THEN 0
    ELSE ChoiceBadReferences(engine, Head(choices))
            + ChoicesBadReferences(engine, Tail(choices))

RECURSIVE NodesBadReferences(_, _)
NodesBadReferences(engine, ids) ==
    IF ids = {} THEN 0
    ELSE LET id == CHOOSE i \in ids : TRUE
             node == engine.all_nodes[id]
         IN  Cardinality(NamesOfString(node.display_text) \ DeclaredVariables(engine))
             + ChoicesBadReferences(engine, node.choices)
             + NodesBadReferences(engine, ids \ {id})

\* the references are the only defects: START is declared and no ordering
\* operator has an operand of a declared type other than Int
OnlyBadReferences(engine) ==
    /\ "START" \in DOMAIN engine.all_nodes
    /\ \A id \in DOMAIN engine.all_nodes :
          \A k \in 1..Len(engine.all_nodes[id].choices) :
             LET c == engine.all_nodes[id].choices[k]
             IN  (c.requirement # None /\ c.requirement[1].op \in Ordering) =>
                    \A o \in Operands(c.requirement[1]) : StaticallyInt(engine, o)

\* C9: the error list has one record for each defect and no record twice: a
\* script whose only defects are N bad references yields exactly N records.
C9_OneRecordPerDefect ==
    (built.tag = "Err" /\ OnlyBadReferences(loaded_engine(source))) =>
        /\ Len(built.errors)
             = NodesBadReferences(loaded_engine(source),
                                  DOMAIN loaded_engine(source).all_nodes)
        /\ \A j, k \in 1..Len(built.errors) : j # k => built.errors[j] # built.errors[k]

\* C10: a requirement with > or < passes validation exactly when both
\* operands are integer literals or names declared with an Int; otherwise
\* from_program fails with an InvalidExpression record for the node.  A
\* requirement with = or != whose names are declared passes, whatever the
\* types of its operands.
C10_OrderingNeedsStaticInts ==
    Called =>
        LET engine == loaded_engine(source)
            errs == ReturnedErrors
        IN  \A id \in DOMAIN engine.all_nodes :
              \A k \in 1..Len(engine.all_nodes[id].choices) :
                 LET c == engine.all_nodes[id].choices[k]
                     r == c.requirement[1]
                     invalid == \E j \in 1..Len(errs) :
                                    /\ errs[j].err = "InvalidExpression"
                                    /\ errs[j].parent_node_id = id
                                    /\ errs[j].expression = r
                     badref == \E j \in 1..Len(errs) :
                                    /\ errs[j].err = "BadReferenceInExpression"
                                    /\ errs[j].parent_node_id = id
                     ints == \A o \in Operands(r) : StaticallyInt(engine, o)
                 IN  c.requirement # None =>
                        /\ r.op \in Ordering =>
                              /\ ints <=> ~invalid
                              /\ ints => ~badref
                              /\ ~ints => built.tag = "Err"
                        /\ (r.op \in {"Equals", "NotEquals"}
                                /\ NamesOfExpression(r) \subseteq DeclaredVariables(engine))
                              => (~invalid /\ ~badref)

\* x > "a" with x declared as an Int is the only defect of the script, and it
\* is reported as InvalidExpression
C10_Witness ==
    /\ built.tag = "Err"
    /\ Len(built.errors) = 1
    /\ built.errors[1].err = "InvalidExpression"
    /\ built.errors[1].expression.op = "GreaterThan"
    /\ built.errors[1].expression.left = ExprName("x")
    /\ built.errors[1].expression.right = ExprValue(ValueString(<<Literal("a")>>))

(***************************************************************************)
(* Properties of parse_program.                                            *)
(***************************************************************************)
HasMalformed(src) == \E k \in 1..Len(src) : src[k].part = "Malformed"

\* C11: parsing is whole-input or nothing: from_program never goes on with
\* only the declarations that precede one that does not parse; no engine is
\* built and no semantic error is reported for such a script.
C11_ParseIsWholeOrNothing ==
    (Called /\ HasMalformed(source)) => built.tag \notin {"Ok", "Err"}

(***************************************************************************)
(* Termination.                                                            *)
(***************************************************************************)
\* C12: every get_current_node_view and every choose_option on a session of
\* a built engine returns after a bounded number of steps: rendering never
\* recurses without end.
C12_EveryCallReturns ==
    /\ LastIsRender => last.view.st # "stack_overflow"
    /\ LastIsChoose => last.result.tag \in {"Success", "InvalidOption"}

(***************************************************************************)
(* Properties of = and !=.                                                 *)
(***************************************************************************)
\* the value of an operand of a requirement under the session
OperandValue(session, o) ==
    IF o.op = "Name" THEN session.variables[o.name] ELSE o.v

\* equality as the specification states it: never across variants, Ints and
\* Bools by value, Strings by their text rendered under the session
SameValue(session, l, r) ==
    /\ l.tag = r.tag
    /\ CASE l.tag = "Int" -> l.i = r.i
         [] l.tag = "Bool" -> l.b = r.b
         [] l.tag = "String" ->
                evaluate_string(session, l.s).str = evaluate_string(session, r.s).str

\* C13: = yields true only for operands of the same variant (Ints and Bools
\* by value, Strings by rendered text) and != is its negation: the only
\* choice of a node, gated by such a requirement, is visible exactly when
\* the comparison so defined is true.
C13_EqualityByVariant ==
    (LastIsRender /\ last.view.st = "ok") =>
        LET session == sessions[last.sid]
            choices == NodeOf(session).choices
            r == choices[1].requirement[1]
            same == SameValue(session, OperandValue(session, r.left),
                              OperandValue(session, r.right))
        IN  (/\ Len(choices) = 1
             /\ choices[1].requirement # None
             /\ choices[1].requirement[1].op \in {"Equals", "NotEquals"}) =>
                (Len(last.view.choices) = 1 <=> (IF r.op = "Equals" THEN same ELSE ~same))

\* s = "0" holds for the template "{x}" after x, declared as a Bool, has been
\* set to the string "0"
C13_Witness ==
    /\ LastIsRender
    /\ last.view.st = "ok"
    /\ built.engine.default_variables["x"].tag = "Bool"
    /\ sessions[last.sid].variables["x"] = ValueString(<<Literal("0")>>)
    /\ NodeOf(sessions[last.sid]).choices[1].requirement
         = Some(ExprBinary("Equals", ExprName("s"),
                           ExprValue(ValueString(<<Literal("0")>>))))
    /\ Len(last.view.choices) = 1

(***************************************************************************)
(* Properties of the sessions of one engine.                               *)
(***************************************************************************)
\* the value the script declares last for the name n
LastDeclared(n) ==
    LET ks == {k \in 1..Len(source) :
                    source[k].part = "VariableDefinition" /\ source[k].name = n}
    IN  source[CHOOSE k \in ks : \A j \in ks : j <= k].value

DeclaredNames ==
    {source[k].name : k \in {j \in 1..Len(source) : source[j].part = "VariableDefinition"}}

\* a session at START with the declared defaults
FreshSession ==
    [variables |-> [n \in DeclaredNames |-> LastDeclared(n)],
     current_node_id |-> "START"]

\* C14: new_session yields a session at START with the declared defaults,
\* whatever the other sessions have done; a call on one session changes
\* neither the engine nor any other session, and get_current_node_view
\* changes no session at all.
C14_SessionsAreIsolated ==
    [][built.tag = "Ok" =>
        /\ built' = built
        /\ Len(sessions') >= Len(sessions)
        /\ \A sid \in 1..Len(sessions) :
              \/ sessions'[sid] = sessions[sid]
              \/ last'.op = "choose_option" /\ last'.sid = sid
        /\ Len(sessions') > Len(sessions) =>
              /\ Len(sessions') = Len(sessions) + 1
              /\ last'.op = "new_session"
              /\ sessions'[Len(sessions')] = FreshSession
        /\ last'.op = "get_current_node_view" => sessions' = sessions]_vars

\* the second session has just been created fresh while the first one has
\* moved on and changed a variable
C14_Witness ==
    /\ built.tag = "Ok"
    /\ Len(sessions) = 2
    /\ last.op = "new_session"
    /\ last.sid = 2
    /\ sessions[1].current_node_id # "START"
    /\ sessions[1].variables # built.engine.default_variables
    /\ sessions[2] = FreshSession

\* the nodes reached from the nodes of S along authored choices
RECURSIVE ReachableFrom(_, _)
ReachableFrom(engine, S) ==
    LET targets == UNION {{engine.all_nodes[id].choices[k].next_node_id :
                                k \in 1..Len(engine.all_nodes[id].choices)} :
                          id \in S \cap DOMAIN engine.all_nodes}
    IN  IF targets \subseteq S THEN S ELSE ReachableFrom(engine, S \cup targets)

\* C15: every session of a built engine is well formed: its current node is
\* a declared node reachable from START along authored choices, and it binds
\* exactly the names the engine declares.
C15_SessionsWellFormed ==
    built.tag = "Ok" =>
        \A sid \in 1..Len(sessions) :
            /\ sessions[sid].current_node_id \in DOMAIN built.engine.all_nodes
            /\ sessions[sid].current_node_id \in ReachableFrom(built.engine, {"START"})
            /\ DOMAIN sessions[sid].variables = DOMAIN built.engine.default_variables

\* a session that has reached A by a choice whose Set changed the variant of
\* x, and has then been refused an id
C15_Witness ==
    /\ LastIsChoose
    /\ last.result.tag = "InvalidOption"
    /\ sessions[last.sid].current_node_id = "A"
    /\ sessions[last.sid].variables["x"].tag
         # built.engine.default_variables["x"].tag

(***************************************************************************)
(* Choices with the same target.                                           *)
(***************************************************************************)
\* the positions of the authored choices of the node with the target id
PositionsOf(node, id) ==
    {k \in 1..Len(node.choices) : node.choices[k].next_node_id = id}

\* C16: when several authored choices of the current node have the chosen
\* target, choose_option applies the command of the first of them in
\* authored order (none if it has none), not those of the later ones.
C16_FirstChoiceWins ==
    (LastIsChoose /\ PositionsOf(NodeOf(last.before), last.arg) # {}) =>
        LET ks == PositionsOf(NodeOf(last.before), last.arg)
            first == CHOOSE k \in ks : \A j \in ks : k <= j
        IN  sessions[last.sid]
              = AfterChoice(last.before, NodeOf(last.before).choices[first])

\* two choices lead to START, the first one is hidden and the second one is
\* visible, they set x to different values, and x has the value of the first
C16_Witness ==
    /\ LastIsChoose
    /\ last.result = Success
    /\ LET node == NodeOf(last.before)
           ks == PositionsOf(node, last.arg)
       IN  /\ Cardinality(ks) = 2
           /\ \A k \in ks : node.choices[k].command # None
           /\ \E j, k \in ks :
                 /\ j < k
                 /\ node.choices[j].requirement # None
                 /\ evaluate_expression(last.before, node.choices[j].requirement[1]).st = "ok"
                 /\ evaluate_expression(last.before, node.choices[k].requirement[1]).st = "ok"
                 /\ ~Shown(last.before, node.choices[j])
                 /\ Shown(last.before, node.choices[k])
                 /\ AfterChoice(last.before, node.choices[j])
                      # AfterChoice(last.before, node.choices[k])
                 /\ sessions[last.sid] = AfterChoice(last.before, node.choices[j])

====
